---------------------------- MODULE Spec2Model ----------------------------
(***************************************************************************)
(* GraphQLService (src/app/modules/tables/views/TablesView.js, lines 92 to *)
(* 635): the dynamic schema compiler and the query resolver.               *)
(*                                                                         *)
(* Strings are sequences of atoms.  The atoms are chosen so that every     *)
(* prefix or separator the code tests for ("__", "directus_", ".", ":") is *)
(* one atom, which makes startsWith, template literals and the path split  *)
(* of lodash computable on them.                                           *)
(***************************************************************************)
EXTENDS Integers, Sequences, FiniteSets, TLC

VARIABLES
    \* ---- one request: execute -> resolve -> getData ----
    scope,      \* 'items' | 'system', the second parameter of execute
    nErrors,    \* validationErrors.length, the result of validate()
    pc,         \* position of execute
    exc,        \* the exception execute ended with
    top,        \* the top-level fields of the document and their resolvers
    lookups,    \* knex lookups issued on directus_collections, in order
    reads,      \* reads issued on an accessor, in order
    \* ---- parseArgs applied to one argument list ----
    argNodes,       \* args: the ArgumentNode array
    variableValues, \* info.variableValues
    argsOut,        \* what parseArgs returned
    \* ---- parseFields applied to one selection set ----
    selections,     \* the SelectionNode array handed to getData
    planOut,        \* query.fields and query.deep after parseFields
    \* ---- resolveType applied to one value of a union field ----
    unionIn,        \* context.data, the response path, the relation
    unionOut,       \* what resolveType returned, or the error it threw
    \* ---- getSchema applied to one schema ----
    service,        \* this.schema, this.accountability and the scope
    compiled,       \* what getDynamicQuerySchema built
    \* ---- graphql's execute: the resolvers of one operation ----
    rootFields,     \* the top-level fields and the data getData gives each
    resolverPc,     \* position of each top-level resolver
    jobs,           \* the promise jobs queued, first in first out
    context,        \* contextValue, shared by every resolver of the request
    typeReads       \* per field, what the union's resolveType read

reqVars == <<scope, nErrors, pc, exc, top, lookups, reads>>
argVars == <<argNodes, variableValues, argsOut>>
planVars == <<selections, planOut>>
unionVars == <<unionIn, unionOut>>
compileVars == <<service, compiled>>
execVars == <<rootFields, resolverPc, jobs, context, typeReads>>

vars == <<reqVars, argVars, planVars, unionVars, compileVars, execVars>>

\* What a step of one part leaves alone: the variables of the other parts
notReq == <<argVars, planVars, unionVars, compileVars, execVars>>
notArg == <<reqVars, planVars, unionVars, compileVars, execVars>>
notPlan == <<reqVars, argVars, unionVars, compileVars, execVars>>
notUnion == <<reqVars, argVars, planVars, compileVars, execVars>>
notCompile == <<reqVars, argVars, planVars, unionVars, execVars>>
notExec == <<reqVars, argVars, planVars, unionVars, compileVars>>

\* ------------------------------------------------------------------ bounds
MaxTop == 1
MaxErrors == 2
MaxArgNodes == 3
MaxSelectionNodes == 3
MaxRelationNodes == 4
MaxNesting == 2
MaxRelations == 1
MaxFields == 2

\* ----------------------------------------------------------------- strings
StartsWith(s, prefix) ==
    /\ Len(s) >= Len(prefix)
    /\ SubSeq(s, 1, Len(prefix)) = prefix

Last(s) == s[Len(s)]

SystemPrefix == <<"directus_">>

\* --------------------------------------------------------------- JS values
\* undefined, primitives, plain objects (a function from keys to values) and
\* arrays.  The tag k sorts first, so two values of different kinds compare
\* by tag alone.
Undef == [k |-> "undefined", v |-> 0]
Prim(x) == [k |-> "prim", v |-> x]
Obj(m) == [k |-> "object", v |-> m]
Arr(s) == [k |-> "array", v |-> s]
EmptyMap == [x \in {} |-> Undef]

\* object[key], undefined when the key is absent
Prop(object, key) ==
    IF object.k = "object" /\ key \in DOMAIN object.v
    THEN object.v[key]
    ELSE Undef

\* map with map[key] = value
Assign(map, key, value) ==
    [x \in (DOMAIN map) \cup {key} |-> IF x = key THEN value ELSE map[x]]

\* -------------------------------------------------------------- parseArgs
\* Value nodes of the argument AST.  Scalar nodes carry .value (for an
\* IntValueNode the digits as written); NullValue, Variable, ListValue and
\* ObjectValue nodes have no .value property.
IntValue(text) == [kind |-> "IntValue", value |-> Prim(text)]
NullValue == [kind |-> "NullValue"]
Variable(name) == [kind |-> "Variable", name |-> name]
ListValue(values) == [kind |-> "ListValue", values |-> values]
ObjectValue(fields) == [fields |-> fields, kind |-> "ObjectValue"]

\* (node as any).value
NodeValue(node) ==
    IF "value" \in DOMAIN node THEN node.value ELSE Undef

\* variableValues[name]
Binding(bindings, name) ==
    IF name \in DOMAIN bindings THEN bindings[name] ELSE Undef

RECURSIVE ParseArgs(_, _)
RECURSIVE ParseArgsFrom(_, _, _, _)
RECURSIVE ParseListFrom(_, _, _, _)

\* The loop over a ListValue's values: an ObjectValue element is parsed,
\* every other element contributes its .value property.
ParseListFrom(valueNodes, i, values, bindings) ==
    IF i > Len(valueNodes) THEN values
    ELSE LET valueNode == valueNodes[i]
             pushed == IF valueNode.kind = "ObjectValue"
                       THEN Obj(ParseArgs(valueNode.fields, bindings))
                       ELSE NodeValue(valueNode)
         IN  ParseListFrom(valueNodes, i + 1, Append(values, pushed), bindings)

\* The loop over the arguments, assigning argsObject[argument.name.value]
ParseArgsFrom(args, i, argsObject, bindings) ==
    IF i > Len(args) THEN argsObject
    ELSE LET argument == args[i]
             parsed ==
                CASE argument.value.kind = "ObjectValue" ->
                        Obj(ParseArgs(argument.value.fields, bindings))
                  [] argument.value.kind = "Variable" ->
                        Binding(bindings, argument.value.name)
                  [] argument.value.kind = "ListValue" ->
                        Arr(ParseListFrom(argument.value.values, 1, <<>>, bindings))
                  [] OTHER -> NodeValue(argument.value)
         IN  ParseArgsFrom(args, i + 1,
                           Assign(argsObject, argument.name, parsed), bindings)

\* parseArgs(args, variableValues): the map of the returned object
ParseArgs(args, bindings) ==
    IF Len(args) = 0 THEN EmptyMap
    ELSE ParseArgsFrom(args, 1, EmptyMap, bindings)

\* ---- inputs of parseArgs ----
ArgNames == { <<"limit">>, <<"filter">> }
VariableNames == { <<"v">> }
LeafNodes == { IntValue("1"), NullValue } \cup
             { Variable(name) : name \in VariableNames }

RECURSIVE NodeSize(_)
RECURSIVE SeqSize(_, _)
RECURSIVE ArgsSize(_, _)
SeqSize(nodes, i) ==
    IF i > Len(nodes) THEN 0 ELSE NodeSize(nodes[i]) + SeqSize(nodes, i + 1)
ArgsSize(args, i) ==
    IF i > Len(args) THEN 0 ELSE NodeSize(args[i].value) + ArgsSize(args, i + 1)
NodeSize(node) ==
    CASE node.kind = "ListValue" -> 1 + SeqSize(node.values, 1)
      [] node.kind = "ObjectValue" -> 1 + ArgsSize(node.fields, 1)
      [] OTHER -> 1

RECURSIVE ValueNodes(_)
RECURSIVE ValueSeqs(_)
RECURSIVE ArgSeqs(_)
\* value nodes of at most n AST nodes
ValueNodes(n) ==
    IF n <= 0 THEN {}
    ELSE LeafNodes
         \cup { ListValue(values) : values \in ValueSeqs(n - 1) }
         \cup { ObjectValue(fields) : fields \in ArgSeqs(n - 1) }
\* sequences of value nodes of at most n AST nodes in all
ValueSeqs(n) ==
    IF n <= 0 THEN {<<>>}
    ELSE {<<>>} \cup
         UNION { { <<node>> \o rest : rest \in ValueSeqs(n - NodeSize(node)) } :
                 node \in ValueNodes(n) }
\* argument (or object field) lists of at most n AST value nodes in all
ArgSeqs(n) ==
    IF n <= 0 THEN {<<>>}
    ELSE {<<>>} \cup
         UNION { { <<[name |-> name, value |-> node]>> \o rest :
                     name \in ArgNames, rest \in ArgSeqs(n - NodeSize(node)) } :
                 node \in ValueNodes(n) }

\* Variable bindings: already-plain values, or no binding at all
PlainValues == { Prim("bound"), Obj(Assign(EmptyMap, <<"_eq">>, Prim("1"))),
                 Arr(<<Prim("a")>>) }
VariableBindings ==
    UNION { [names -> PlainValues] : names \in SUBSET VariableNames }

NotRun == [k |-> "notrun", v |-> 0]

ArgInit ==
    /\ argNodes \in ArgSeqs(MaxArgNodes)
    /\ variableValues \in VariableBindings
    /\ argsOut = NotRun

ArgIdle ==
    /\ argNodes = <<>>
    /\ variableValues = EmptyMap
    /\ argsOut = NotRun

CallParseArgs ==
    /\ argsOut = NotRun
    /\ argsOut' = Obj(ParseArgs(argNodes, variableValues))
    /\ UNCHANGED <<argNodes, variableValues>>
    /\ UNCHANGED notArg

\* ------------------------------------------------------------- parseFields
\* Selection nodes.  A field's alias is not modelled: parseFields never
\* reads it.  Every inline fragment of the inputs names a type condition.
NoSelectionSet == [defined |-> FALSE, selections |-> <<>>]
SelectionSet(sels) == [defined |-> TRUE, selections |-> sels]
FieldNode(name, arguments, selectionSet) ==
    [kind |-> "Field", name |-> name, arguments |-> arguments,
     selectionSet |-> selectionSet]
InlineFragmentNode(typeName, selectionSet) ==
    [kind |-> "InlineFragment", typeCondition |-> typeName,
     selectionSet |-> selectionSet]
FragmentSpreadNode == [kind |-> "FragmentSpread", name |-> <<"frag">>]

\* The optional parameter `parent`: undefined at the root call
NoParent == [defined |-> FALSE, text |-> <<>>]
Parent(text) == [defined |-> TRUE, text |-> text]

\* `${parent}` in a template literal
Template(parent) ==
    IF parent.defined THEN parent.text ELSE <<"undefined">>

\* if (parent)
Truthy(parent) == parent.defined /\ parent.text # <<>>

\* sanitizeQuery: keeps the query options it knows whose value is given, and
\* normalises their values (a limit written 5 becomes the number 5).
QueryOptionNames ==
    { <<"limit">>, <<"offset">>, <<"page">>, <<"sort">>, <<"search">>,
      <<"filter">> }
SanitizeValue(value) ==
    IF value.k = "prim" THEN Prim(<<"sanitized", value.v>>) ELSE value
SanitizeQuery(rawQuery) ==
    [key \in { x \in DOMAIN rawQuery :
                 x \in QueryOptionNames /\ rawQuery[x].k # "undefined" }
        |-> SanitizeValue(rawQuery[key])]

\* mapKeys(object, (value, key) => `_${key}`)
MapKeysPrefixed(map) ==
    [key \in { <<"_">> \o x : x \in DOMAIN map } |-> map[Tail(key)]]

\* lodash's path of a string: the property names between the dots
RECURSIVE StringToPath(_, _, _)
StringToPath(text, i, current) ==
    IF i > Len(text) THEN <<current>>
    ELSE IF text[i] = "."
         THEN <<current>> \o StringToPath(text, i + 1, <<>>)
         ELSE StringToPath(text, i + 1, Append(current, text[i]))

\* get(object, path)
RECURSIVE GetPath(_, _)
GetPath(object, keys) ==
    IF Len(keys) = 0 THEN object
    ELSE GetPath(Prop(object, keys[1]), Tail(keys))
LodashGet(object, path) == GetPath(object, StringToPath(path, 1, <<>>))

\* set(object, path, value): a missing or non-object step is replaced by {}
RECURSIVE SetPath(_, _, _)
SetPath(object, keys, value) ==
    IF Len(keys) = 1 THEN Obj(Assign(object.v, keys[1], value))
    ELSE LET objValue == Prop(object, keys[1])
             nested == IF objValue.k = "object" THEN objValue ELSE Obj(EmptyMap)
         IN  Obj(Assign(object.v, keys[1], SetPath(nested, Tail(keys), value)))
LodashSet(object, path, value) ==
    SetPath(object, StringToPath(path, 1, <<>>), value)

\* merge(object, source): source's properties are assigned onto object (an
\* undefined object is {}), plain objects recursively, and an undefined
\* source value never replaces a value that is there.
RECURSIVE LodashMerge(_, _)
LodashMerge(object, source) ==
    LET base == IF object.k = "object" THEN object.v ELSE EmptyMap
        src == source.v
    IN  Obj([key \in (DOMAIN base) \cup (DOMAIN src) |->
              IF key \notin DOMAIN src THEN base[key]
              ELSE IF key \notin DOMAIN base THEN src[key]
              ELSE IF src[key].k = "undefined" THEN base[key]
              ELSE IF src[key].k = "object" /\ base[key].k = "object"
                   THEN LodashMerge(base[key], src[key])
                   ELSE src[key]])

\* The deep block one field with arguments records:
\*   if (!query.deep) query.deep = {};
\*   set(query.deep, current, merge(get(query.deep, current), mapKeys(...)))
RecordDeep(deep, current, arguments, bindings) ==
    LET queryDeep == IF deep.k = "undefined" THEN Obj(EmptyMap) ELSE deep
        args == ParseArgs(arguments, bindings)
        block == Obj(MapKeysPrefixed(SanitizeQuery(args)))
    IN  LodashSet(queryDeep, current,
                  LodashMerge(LodashGet(queryDeep, current), block))

\* A faulty variant of the path: the parent's path not prepended to a
\* field's name
CurrentPathWithoutParent(selection, parent) ==
    IF selection.kind = "InlineFragment"
    THEN Template(parent) \o <<":">> \o selection.typeCondition
    ELSE selection.name

\* The path one selection stands for
CurrentPath(selection, parent) ==
    IF selection.kind = "InlineFragment"
    THEN Template(parent) \o <<":">> \o selection.typeCondition
    ELSE IF Truthy(parent)
         THEN Template(parent) \o <<".">> \o selection.name
         ELSE selection.name

\* The two `continue`s: a selection that is neither a field nor an inline
\* fragment, and a name (or type condition) starting with "__"
Skipped(selection) ==
    \/ selection.kind \notin {"Field", "InlineFragment"}
    \/ /\ selection.kind = "InlineFragment"
       /\ StartsWith(selection.typeCondition, <<"__">>)
    \/ /\ selection.kind = "Field"
       /\ StartsWith(selection.name, <<"__">>)

\* parseFields(selections, parent), with query.deep threaded through: the
\* result is the returned fields and query.deep as the call leaves it.
RECURSIVE ParseFieldsFrom(_, _, _, _, _, _)
ParseFieldsFrom(sels, i, parent, fields, deep, bindings) ==
    IF i > Len(sels) THEN [fields |-> fields, deep |-> deep]
    ELSE LET selection == sels[i] IN
         IF Skipped(selection)
         THEN ParseFieldsFrom(sels, i + 1, parent, fields, deep, bindings)
         ELSE LET current == CurrentPath(selection, parent)
                  children ==
                     IF selection.selectionSet.defined
                     THEN ParseFieldsFrom(selection.selectionSet.selections, 1,
                                          Parent(current), <<>>, deep, bindings)
                     ELSE [fields |-> <<current>>, deep |-> deep]
                  recorded ==
                     IF selection.kind = "Field" /\ Len(selection.arguments) > 0
                     THEN RecordDeep(children.deep, current,
                                     selection.arguments, bindings)
                     ELSE children.deep
              IN  ParseFieldsFrom(sels, i + 1, parent,
                                  fields \o children.fields, recorded, bindings)

ParseFields(sels, bindings) ==
    ParseFieldsFrom(sels, 1, NoParent, <<>>, Undef, bindings)

\* ---- inputs of parseFields ----
Limit(text) == <<[name |-> <<"limit">>, value |-> IntValue(text)]>>

RECURSIVE SelectionSize(_)
RECURSIVE SelectionsSize(_, _)
SelectionsSize(sels, i) ==
    IF i > Len(sels) THEN 0
    ELSE SelectionSize(sels[i]) + SelectionsSize(sels, i + 1)
SelectionSize(selection) ==
    IF selection.kind = "FragmentSpread" THEN 1
    ELSE 1 + SelectionsSize(selection.selectionSet.selections, 1)

\* Selections without a selection set: every kind of node
AnyLeaves ==
    { FieldNode(name, <<>>, NoSelectionSet) :
        name \in { <<"a">>, <<"b">>, <<"__", "typename">> } }
    \cup { FragmentSpreadNode }
\* Selections with a selection set drawn from `sets`: every kind of node
AnyNested(sets) ==
    { FieldNode(name, <<>>, SelectionSet(sels)) :
        name \in { <<"a">>, <<"__", "x">> }, sels \in sets }
    \cup { FieldNode(<<"b">>, Limit("1"), SelectionSet(sels)) : sels \in sets }
    \cup { InlineFragmentNode(typeName, SelectionSet(sels)) :
             typeName \in { <<"T">>, <<"__", "T">> }, sels \in sets }

\* Relation fields and their columns: the fields that accept arguments
RelationLeaves ==
    { FieldNode(name, <<>>, NoSelectionSet) : name \in { <<"a">>, <<"b">> } }
RelationNested(sets) ==
    { FieldNode(<<"a">>, arguments, SelectionSet(sels)) :
        arguments \in { <<>>, Limit("1"), Limit("2") }, sels \in sets }
    \cup { FieldNode(<<"b">>, arguments, SelectionSet(sels)) :
             arguments \in { <<>>, Limit("1") }, sels \in sets }

RECURSIVE SelectionSeqs(_, _)
\* selection arrays of at most n nodes in all; a selection set is not empty
SelectionSeqs(n, relationsOnly) ==
    IF n <= 0 THEN {<<>>}
    ELSE LET sets == SelectionSeqs(n - 1, relationsOnly) \ {<<>>}
             nodes == IF relationsOnly
                      THEN RelationLeaves \cup RelationNested(sets)
                      ELSE AnyLeaves \cup AnyNested(sets)
         IN  {<<>>} \cup
             UNION { { <<node>> \o rest :
                         rest \in SelectionSeqs(n - SelectionSize(node),
                                                relationsOnly) } :
                     node \in nodes }

SelectionInputs ==
    (SelectionSeqs(MaxSelectionNodes, FALSE) \cup
     SelectionSeqs(MaxRelationNodes, TRUE)) \ {<<>>}

PlanInit ==
    /\ selections \in SelectionInputs
    /\ planOut = NotRun

PlanIdle ==
    /\ selections = <<>>
    /\ planOut = NotRun

CallParseFields ==
    /\ planOut = NotRun
    /\ planOut' = [k |-> "done", v |-> ParseFields(selections, variableValues)]
    /\ UNCHANGED selections
    /\ UNCHANGED notPlan

\* ------------------------------------------------------------ resolveType
\* A key of the response path: a field's response name or a list index
NameKey(name) == [t |-> "name", s |-> name]
IndexKey(n) == [t |-> "index", n |-> n]

\* info.path: the linked list { prev, key } from the leaf back to the root,
\* whose root entry has prev undefined
NoPath == [defined |-> FALSE]
AddPath(prev, key) == [defined |-> TRUE, prev |-> prev, key |-> key]

RECURSIVE PathFromKeys(_, _)
PathFromKeys(keys, n) ==
    IF n = 0 THEN NoPath
    ELSE AddPath(PathFromKeys(keys, n - 1), keys[n])

\* while (currentPath.prev) { path.push(currentPath.key); currentPath = currentPath.prev; }
RECURSIVE CollectKeys(_)
CollectKeys(currentPath) ==
    IF currentPath.prev.defined
    THEN <<currentPath.key>> \o CollectKeys(currentPath.prev)
    ELSE <<>>

Reverse(s) == [i \in 1..Len(s) |-> s[Len(s) + 1 - i]]

\* array.slice(1, -1)
SliceInner(s) == SubSeq(s, 2, Len(s) - 1)

\* path = path.reverse().slice(1, -1)
WalkedPath(infoPath) == SliceInner(Reverse(CollectKeys(infoPath)))

TypeError == [k |-> "TypeError", v |-> 0]

\* parent[pathPart]: a TypeError on undefined and null, the element of an
\* array at an index, the property of an object at a name, else undefined
Index(parent, key) ==
    CASE parent.k \in {"undefined", "null", "TypeError"} -> TypeError
      [] parent.k = "array" /\ key.t = "index" ->
            IF key.n + 1 \in DOMAIN parent.v THEN parent.v[key.n + 1] ELSE Undef
      [] parent.k = "object" /\ key.t = "name" -> Prop(parent, key.s)
      [] OTHER -> Undef

\* for (const pathPart of path) { parent = parent[pathPart]; }
RECURSIVE WalkFrom(_, _, _)
WalkFrom(parent, path, i) ==
    IF i > Len(path) \/ parent.k = "TypeError" THEN parent
    ELSE WalkFrom(Index(parent, path[i]), path, i + 1)

\* types.find((GraphQLType) => GraphQLType.name === type)
FindType(types, type) ==
    IF type.k = "prim" /\ \E i \in 1..Len(types) : types[i] = type.v
    THEN Prim(type.v)
    ELSE Undef

\* resolveType(value, context, info) of the union of a many-to-any field
ResolveType(contextData, infoPath, oneCollectionField, types) ==
    LET parent == WalkFrom(contextData, WalkedPath(infoPath), 1)
        type == Index(parent, NameKey(oneCollectionField))
    IN  IF type.k = "TypeError" THEN TypeError ELSE FindType(types, type)

\* ---- inputs of resolveType ----
\* The many-to-any relation of the junction's field "item": its
\* discriminator field and the object types of its allowed collections
OneCollectionField == <<"collection">>
AllowedTypes == << <<"headings">>, <<"paragraphs">> >>
UnionFieldName == <<"item">>
RootFieldName == <<"pages">>
RelationFieldName == <<"rel">>

\* What a row holds at the discriminator's name: an allowed collection, a
\* name that is no member, or nothing (the field was not selected)
Discriminators ==
    { Prim(<<"headings">>), Prim(<<"paragraphs">>), Prim(<<"drafts">>), Undef }

WithDiscriminator(map, value) ==
    IF value.k = "undefined" THEN map
    ELSE Assign(map, OneCollectionField, value)

\* The record that contains the union field, below a chain of relation
\* fields (steps), each to-one or to-many; every to-many holds two records.
RECURSIVE Record(_, _, _)
Record(steps, own, outer) ==
    IF Len(steps) = 0
    THEN Obj(WithDiscriminator(
            Assign(EmptyMap, UnionFieldName,
                   Obj(Assign(EmptyMap, <<"id">>, Prim("1")))), own))
    ELSE LET child == Record(Tail(steps), own, outer)
             related == IF Head(steps) = "toMany"
                        THEN Arr(<<child, child>>) ELSE child
         IN  Obj(WithDiscriminator(
                Assign(EmptyMap, RelationFieldName, related), outer))

\* The data a top-level resolver returns: a list for a list collection,
\* one record for a singleton
ResultTree(isList, steps, own, outer) ==
    IF isList
    THEN Arr(<<Record(steps, own, outer), Record(steps, own, outer)>>)
    ELSE Record(steps, own, outer)

\* The keys of the response path of the union field, root first
RECURSIVE StepKeys(_, _)
StepKeys(steps, index) ==
    IF Len(steps) = 0 THEN <<>>
    ELSE <<NameKey(RelationFieldName)>>
         \o (IF Head(steps) = "toMany" THEN <<IndexKey(index)>> ELSE <<>>)
         \o StepKeys(Tail(steps), index)
ResponseKeys(isList, steps, index) ==
    <<NameKey(RootFieldName)>>
    \o (IF isList THEN <<IndexKey(index)>> ELSE <<>>)
    \o StepKeys(steps, index)
    \o <<NameKey(UnionFieldName)>>

StepSeqs ==
    UNION { [1..n -> {"toOne", "toMany"}] : n \in 0..MaxNesting }

UnionInit ==
    /\ \E isList \in BOOLEAN, steps \in StepSeqs, index \in {0, 1},
          own \in Discriminators, outer \in Discriminators :
          unionIn = [ data |-> ResultTree(isList, steps, own, outer),
                      keys |-> ResponseKeys(isList, steps, index),
                      isList |-> isList,
                      nesting |-> Len(steps) ]
    /\ unionOut = NotRun

UnionIdle ==
    /\ unionIn = [ data |-> Undef, keys |-> <<>>, isList |-> FALSE,
                   nesting |-> 0 ]
    /\ unionOut = NotRun

CallResolveType ==
    /\ unionOut = NotRun
    /\ unionOut' = ResolveType(unionIn.data,
                               PathFromKeys(unionIn.keys, Len(unionIn.keys)),
                               OneCollectionField, AllowedTypes)
    /\ UNCHANGED unionIn
    /\ UNCHANGED notUnion

\* ---------------------------------------------------- getDynamicQuerySchema
NoName == <<>>
NoCollections == <<>>

\* relations.find(...): the first relation one of whose sides is the pair
MatchesMany(relation, collection, field) ==
    relation.many_collection = collection /\ relation.many_field = field
MatchesOne(relation, collection, field) ==
    relation.one_collection = collection /\ relation.one_field = field
HasRelation(relations, collection, field) ==
    \E i \in 1..Len(relations) :
        MatchesMany(relations[i], collection, field)
        \/ MatchesOne(relations[i], collection, field)
RelationForField(relations, collection, field) ==
    relations[CHOOSE i \in 1..Len(relations) :
        /\ MatchesMany(relations[i], collection, field)
           \/ MatchesOne(relations[i], collection, field)
        /\ \A j \in 1..(i - 1) :
              ~(MatchesMany(relations[j], collection, field)
                \/ MatchesOne(relations[j], collection, field))]

\* getRelationType: many-to-any when the pair is the many side of a relation
\* that declares a discriminator field and allowed collections, many-to-one
\* when it is the many side of any other relation, one-to-many when it is
\* the one side.
GetRelationType(relation, collection, field) ==
    IF MatchesMany(relation, collection, field)
    THEN IF relation.one_collection_field # NoName
            /\ relation.one_allowed_collections # NoCollections
         THEN "m2a" ELSE "m2o"
    ELSE IF MatchesOne(relation, collection, field) THEN "o2m" ELSE "null"

\* reduceSchema(schema, ['read']): the collections the caller may read, and
\* the relations all of whose collections the caller may read
ReduceSchema(schema, readable) ==
    [ collections |->
        [c \in (DOMAIN schema.collections) \cap readable |-> schema.collections[c]],
      relations |->
        SelectSeq(schema.relations, LAMBDA r :
            /\ r.many_collection \in readable
            /\ r.one_collection = NoName \/ r.one_collection \in readable
            /\ \A i \in 1..Len(r.one_allowed_collections) :
                  r.one_allowed_collections[i] \in readable) ]

\* The keys graphqlSchema gets: Object.keys(collection.fields).length === 0
\* is the only `continue` of the loop
GraphqlSchemaKeys(schema) ==
    { c \in DOMAIN schema.collections :
        Cardinality(schema.collections[c].fields) # 0 }

\* The fields a thunk iterates past its `continue`
ExposedFields(collection) ==
    { f \in collection.fields : ~StartsWith(f, <<"__">>) }

Type(kind, of) == [kind |-> kind, of |-> of]

\* The collections whose graphqlSchema[...].type one field of an object
\* type reads
RelatedCollections(relation, relationType) ==
    CASE relationType = "m2o" -> {relation.one_collection}
      [] relationType = "o2m" -> {relation.many_collection}
      [] relationType = "m2a" ->
            { relation.one_allowed_collections[i] :
                i \in 1..Len(relation.one_allowed_collections) }
      [] OTHER -> {}

\* The type one field of an object type gets.  Reading .type of a
\* graphqlSchema entry that does not exist is a TypeError, as is setting
\* .description on a field no branch assigned.
ObjectFieldType(fullRelations, keys, name, collection, field) ==
    IF ~HasRelation(fullRelations, name, field)
    THEN Type("scalar", IF collection.primary = field THEN "ID" ELSE "mapped")
    ELSE LET relation == RelationForField(fullRelations, name, field)
             relationType == GetRelationType(relation, name, field)
         IN  IF \/ relationType = "null"
                \/ ~(RelatedCollections(relation, relationType) \subseteq keys)
             THEN Type("TypeError", "none")
             ELSE CASE relationType = "m2o" ->
                          Type("object", relation.one_collection)
                    [] relationType = "o2m" ->
                          Type("list", relation.many_collection)
                    [] relationType = "m2a" ->
                          Type("union", relation.one_allowed_collections)

\* The deferred field map of collection `name`'s object type: the map, or
\* the TypeError its evaluation throws.  The relation is looked up in
\* this.schema.relations, the service's own schema.
ObjectFields(fullRelations, keys, name, collection) ==
    LET types == [f \in ExposedFields(collection) |->
                    ObjectFieldType(fullRelations, keys, name, collection, f)]
    IN  IF \E f \in DOMAIN types : types[f].kind = "TypeError"
        THEN TypeError
        ELSE Obj(types)

\* A faulty variant of the branches: the one-to-many branch missing
FilterFieldKindsWithoutO2M == {"none", "m2o"}

\* The classifications for which a branch assigns filterFields[field.field]:
\* no relation, m2o and o2m; the m2a case is left as a TODO
FilterFieldKinds == {"none", "m2o", "o2m"}
FilterRelationType(relations, name, field) ==
    IF HasRelation(relations, name, field)
    THEN GetRelationType(RelationForField(relations, name, field), name, field)
    ELSE "none"
FilterFieldType(relations, name, field) ==
    LET relationType == FilterRelationType(relations, name, field)
    IN  CASE relationType = "none" -> Type("operators", <<name, field>>)
          [] relationType = "m2o" ->
                Type("filter", RelationForField(relations, name, field).one_collection)
          [] relationType = "o2m" ->
                Type("filter", RelationForField(relations, name, field).many_collection)

\* The deferred field map of collection `name`'s filter-input type.  The
\* relation is looked up in the schema handed to the compiler.
FilterFields(relations, name, collection) ==
    LET own == { f \in ExposedFields(collection) :
                   FilterRelationType(relations, name, f) \in FilterFieldKinds }
    IN  [f \in own \cup { <<"_and">>, <<"_or">> } |->
            IF f \in { <<"_and">>, <<"_or">> }
            THEN Type("listOfFilter", name)
            ELSE FilterFieldType(relations, name, f)]

\* getFilterArgs: one filter type per entry of schema.collections
GetFilterArgs(schema) ==
    [c \in DOMAIN schema.collections |->
        FilterFields(schema.relations, c, schema.collections[c])]

\* queryBase.fields: the keys of the scope, under the name the scope gives
QueryFields(schema, sc) ==
    LET keys == GraphqlSchemaKeys(schema)
        mine == IF sc = "system"
                THEN { c \in keys : StartsWith(c, SystemPrefix) }
                ELSE { c \in keys : ~StartsWith(c, SystemPrefix) }
    IN  [ fieldName \in { (IF sc = "system" THEN Tail(c) ELSE c) : c \in mine } |->
            LET c == IF sc = "system" THEN SystemPrefix \o fieldName ELSE fieldName
            IN  [ collection |-> c,
                  list |-> schema.collections[c].singleton # TRUE ] ]

\* The object types new GraphQLSchema collects from the root fields, and
\* whose deferred field maps it therefore evaluates
RECURSIVE ReachableTypes(_, _)
ReachableTypes(objectFields, reached) ==
    LET referenced ==
            UNION { UNION { LET type == objectFields[c].v[f]
                            IN  CASE type.kind \in {"object", "list"} -> {type.of}
                                  [] type.kind = "union" ->
                                        { type.of[i] : i \in 1..Len(type.of) }
                                  [] OTHER -> {} :
                            f \in DOMAIN objectFields[c].v } :
                    c \in { x \in reached : objectFields[x].k = "object" } }
    IN  IF referenced \subseteq reached THEN reached
        ELSE ReachableTypes(objectFields, reached \cup referenced)

\* getDynamicQuerySchema(schema, scope) of a service whose own schema has
\* the relations fullRelations
GetDynamicQuerySchema(fullRelations, schema, sc) ==
    LET keys == GraphqlSchemaKeys(schema)
        objectFields ==
            [c \in keys |->
                ObjectFields(fullRelations, keys, c, schema.collections[c])]
        queryFields == QueryFields(schema, sc)
        roots == { queryFields[n].collection : n \in DOMAIN queryFields }
        reached == ReachableTypes(objectFields, roots)
    IN  [ graphqlSchema |-> keys,
          objectFields |-> objectFields,
          filterTypes |-> GetFilterArgs(schema),
          queryFields |-> queryFields,
          threw |-> \E c \in reached : objectFields[c].k = "TypeError" ]

\* getSchema(scope)
\* The schema getSchema hands to the compiler: the service's own for an
\* admin, the reduced one for every other caller
CompilerSchema(svc) ==
    IF svc.admin THEN svc.schema ELSE ReduceSchema(svc.schema, svc.readable)

\* getSchema(scope)
GetSchema(svc) ==
    GetDynamicQuerySchema(svc.schema.relations, CompilerSchema(svc), svc.scope)

\* ---- inputs of getSchema ----
ColA == <<"a">>
ColB == <<"b">>
ColUsers == <<"directus_", "users">>
FieldNames == { <<"id">>, <<"r">>, <<"__", "h">> }

Relation(manyCollection, manyField, oneCollection, oneField, discriminator, allowed) ==
    [ many_collection |-> manyCollection, many_field |-> manyField,
      one_collection |-> oneCollection, one_field |-> oneField,
      one_collection_field |-> discriminator,
      one_allowed_collections |-> allowed ]

RelationPool ==
    { Relation(ColA, <<"r">>, ColB, NoName, NoName, NoCollections),
      Relation(ColA, <<"r">>, ColB, <<"r">>, NoName, NoCollections),
      Relation(ColA, <<"r">>, ColA, NoName, NoName, NoCollections),
      Relation(ColB, <<"r">>, ColUsers, NoName, NoName, NoCollections),
      Relation(ColA, <<"r">>, NoName, NoName, <<"collection">>, <<ColB>>),
      Relation(ColB, <<"r">>, NoName, NoName, <<"collection">>, <<ColA, ColUsers>>) }

RelationSeqs ==
    UNION { [1..n -> RelationPool] : n \in 0..MaxRelations }

CollectionOf(fields, singleton) ==
    [ fields |-> fields, primary |-> <<"id">>, singleton |-> singleton ]

Schemas ==
    { [ collections |->
          (ColA :> CollectionOf(fieldsA, FALSE)) @@
          (ColB :> CollectionOf(fieldsB, TRUE)) @@
          (ColUsers :> CollectionOf({<<"id">>}, FALSE)),
        relations |-> relations ] :
      fieldsA \in SUBSET FieldNames, fieldsB \in SUBSET FieldNames,
      relations \in RelationSeqs }

Services ==
    { [ schema |-> schema, admin |-> TRUE, readable |-> {ColA, ColB, ColUsers},
        scope |-> sc ] : schema \in Schemas, sc \in {"items", "system"} }
    \cup
    { [ schema |-> schema, admin |-> FALSE, readable |-> readable, scope |-> sc ] :
        schema \in Schemas, sc \in {"items", "system"},
        readable \in { {ColA, ColB, ColUsers}, {ColA, ColUsers}, {ColB} } }

CompileInit ==
    /\ service \in Services
    /\ compiled = NotRun

CompileIdle ==
    /\ service = [ schema |-> [collections |-> <<>>, relations |-> <<>>],
                   admin |-> TRUE, readable |-> {}, scope |-> "items" ]
    /\ compiled = NotRun

CallGetSchema ==
    /\ compiled = NotRun
    /\ compiled' = [k |-> "done", v |-> GetSchema(service)]
    /\ UNCHANGED service
    /\ UNCHANGED notCompile

\* ---------------------------------------------------------------- getData
\* The case labels of the switch, in source order, each with the class its
\* statement constructs.  directus_folders is listed twice in the source.
SwitchCases ==
    << [label |-> <<"directus_", "activity">>,    cls |-> "ActivityService"],
       [label |-> <<"directus_", "files">>,       cls |-> "FilesService"],
       [label |-> <<"directus_", "folders">>,     cls |-> "FoldersService"],
       [label |-> <<"directus_", "folders">>,     cls |-> "FoldersService"],
       [label |-> <<"directus_", "permissions">>, cls |-> "PermissionsService"],
       [label |-> <<"directus_", "presets">>,     cls |-> "PresetsService"],
       [label |-> <<"directus_", "relations">>,   cls |-> "RelationsService"],
       [label |-> <<"directus_", "revisions">>,   cls |-> "RevisionsService"],
       [label |-> <<"directus_", "roles">>,       cls |-> "RolesService"],
       [label |-> <<"directus_", "settings">>,    cls |-> "SettingsService"],
       [label |-> <<"directus_", "users">>,       cls |-> "UsersService"],
       [label |-> <<"directus_", "webhooks">>,    cls |-> "WebhooksService"] >>

NoService == [cls |-> "none", collection |-> <<>>]

\* The statement list of the switch: one assignment per case, then the
\* default's.  A specialized accessor is bound to its own collection; the
\* generic one is parameterized by the name passed to getData.
SwitchStatements(collection) ==
    [i \in 1..(Len(SwitchCases) + 1) |->
        IF i <= Len(SwitchCases)
        THEN [cls |-> SwitchCases[i].cls, collection |-> SwitchCases[i].label]
        ELSE [cls |-> "ItemsService", collection |-> collection]]

\* Where the switch enters: the first case whose label equals the
\* discriminant, the default when none does.
SwitchEntry(collection) ==
    IF \E i \in 1..Len(SwitchCases) : SwitchCases[i].label = collection
    THEN CHOOSE i \in 1..Len(SwitchCases) :
            /\ SwitchCases[i].label = collection
            /\ \A j \in 1..(i - 1) : SwitchCases[j].label # collection
    ELSE Len(SwitchCases) + 1

\* No statement of the switch ends in a break: execution runs from the entry
\* through every later statement, the default's included.  The accessor is
\* the one the last executed assignment leaves in `service`.
SelectService(collection) ==
    LET stmts == SwitchStatements(collection)
        executed == SubSeq(stmts, SwitchEntry(collection), Len(stmts))
    IN  Last(executed)

\* A row of collection metadata as the lookup returns it; found = FALSE is
\* the lookup's miss (undefined).
MetaRows == [found : {TRUE}, singleton : BOOLEAN] \cup
            {[found |-> FALSE, singleton |-> FALSE]}

NoRow == [found |-> FALSE, singleton |-> FALSE]

\* A faulty variant of the fallback: the static table consulted first
CollectionInfoStaticFirst(dynamic, static) ==
    IF static.found THEN static ELSE dynamic

\* dynamic || static
CollectionInfo(dynamic, static) ==
    IF dynamic.found THEN dynamic ELSE static

\* collectionInfo?.singleton ? readSingleton : readByQuery
ReadOp(collectionInfo) ==
    IF collectionInfo.found /\ collectionInfo.singleton
    THEN "readSingleton"
    ELSE "readByQuery"

ReadOptions == [stripNonRequested |-> FALSE]

\* ---------------------------------------------------------------- resolve
\* const collection = scope === 'system' ? `directus_${info.fieldName}` : info.fieldName
ResolveCollection(sc, fieldName) ==
    IF sc = "system" THEN SystemPrefix \o fieldName ELSE fieldName

\* ---------------------------------------------------------------- execute
\* A faulty variant of the guard: off by one
ValidationFailsOffByOne(n) == n > 1

\* validationErrors.length > 0
ValidationFails(n) == n > 0

\* The root query fields a document may name: in the system scope the keys
\* with the prefix stripped, in the items scope the other keys.
SystemFieldNames ==
    { <<"activity">>, <<"files">>, <<"folders">>, <<"permissions">>,
      <<"presets">>, <<"relations">>, <<"revisions">>, <<"roles">>,
      <<"settings">>, <<"users">>, <<"webhooks">>,
      <<"collections">>, <<"fields">> }

ItemFieldNames == { <<"articles">>, <<"pages">> }

RootFieldNames(sc) ==
    IF sc = "system" THEN SystemFieldNames ELSE ItemFieldNames

TopFields(sc) ==
    [ fieldName : RootFieldNames(sc),
      hasSelections : BOOLEAN,
      st : {"pending"},
      collection : {<<>>},
      service : {NoService},
      dynamic : {NoRow},
      static : {NoRow} ]

ReqInit ==
    /\ scope \in {"items", "system"}
    /\ nErrors \in 0..MaxErrors
    /\ pc = "start"
    /\ exc = "none"
    /\ \E n \in 1..MaxTop : top \in [1..n -> TopFields(scope)]
    /\ lookups = <<>>
    /\ reads = <<>>

\* execute, up to its first await: getSchema compiles the schema, and a
\* throw of the compiler rejects the request.
AwaitSchema ==
    /\ pc = "start"
    /\ \E threw \in BOOLEAN :
          IF threw
          THEN pc' = "thrown" /\ exc' = "compile"
          ELSE pc' = "validate" /\ exc' = exc
    /\ UNCHANGED <<scope, nErrors, top, lookups, reads>>
    /\ UNCHANGED notReq

\* execute, from validate() to the call of graphql's execute
Validate ==
    /\ pc = "validate"
    /\ IF ValidationFails(nErrors)
       THEN pc' = "thrown" /\ exc' = "InvalidPayloadException"
       ELSE pc' = "executing" /\ exc' = exc
    /\ UNCHANGED <<scope, nErrors, top, lookups, reads>>
    /\ UNCHANGED notReq

\* The top-level resolver of field i: resolve, then getData up to its first
\* await, the lookup on directus_collections.
Resolve(i) ==
    /\ pc = "executing"
    /\ top[i].st = "pending"
    /\ LET collection == ResolveCollection(scope, top[i].fieldName)
       IN  IF ~top[i].hasSelections
           THEN /\ top' = [top EXCEPT ![i].st = "done"]
                /\ UNCHANGED lookups
           ELSE /\ top' = [top EXCEPT ![i].st = "lookup",
                                      ![i].collection = collection,
                                      ![i].service = SelectService(collection)]
                /\ lookups' = Append(lookups, collection)
    /\ UNCHANGED <<scope, nErrors, pc, exc, reads>>
    /\ UNCHANGED notReq

\* getData from the lookup's answer to the read it issues
LookupReturns(i) ==
    /\ pc = "executing"
    /\ top[i].st = "lookup"
    /\ \E dynamic \in MetaRows, static \in MetaRows :
          /\ top' = [top EXCEPT ![i].st = "reading",
                                ![i].dynamic = dynamic,
                                ![i].static = static]
          /\ reads' = Append(reads,
                [by |-> i,
                 service |-> top[i].service,
                 op |-> ReadOp(CollectionInfo(dynamic, static)),
                 options |-> ReadOptions])
    /\ UNCHANGED <<scope, nErrors, pc, exc, lookups>>
    /\ UNCHANGED notReq

\* The read settles: the resolver returns the data, or its rejection is
\* collected as this field's error.
ReadReturns(i) ==
    /\ pc = "executing"
    /\ top[i].st = "reading"
    /\ \E ok \in BOOLEAN :
          top' = [top EXCEPT ![i].st = IF ok THEN "done" ELSE "failed"]
    /\ UNCHANGED <<scope, nErrors, pc, exc, lookups, reads>>
    /\ UNCHANGED notReq

\* graphql's execute returns; execute formats the result
Finish ==
    /\ pc = "executing"
    /\ \A i \in DOMAIN top : top[i].st \in {"done", "failed"}
    /\ pc' = "done"
    /\ UNCHANGED <<scope, nErrors, exc, top, lookups, reads>>
    /\ UNCHANGED notReq

\* ------------------------------------------- the top-level resolve
\* graphql's execute runs the resolvers of a query's top-level fields
\* together: it calls each in document order, every call returns a promise,
\* and it completes a field's value (where a union's resolveType runs) in a
\* reaction to that field's promise.  Promise jobs run first in first out,
\* and a callback of the event loop starts only when none is queued.

\* contextValue: {} has no data yet
NoData == [by |-> 0, data |-> Undef]

\* The response names of the top-level fields
TopNames == << <<"pages">>, <<"posts">>, <<"notes">>, <<"drafts">> >>

\* info.path of the union field below top-level field i, root first
TopLevelKeys(i, isList) ==
    <<NameKey(TopNames[i])>>
    \o (IF isList THEN <<IndexKey(0)>> ELSE <<>>)
    \o <<NameKey(UnionFieldName)>>

\* What getData gives a top-level field: a list or a singleton whose
\* records hold a many-to-any field and its discriminator
RootFieldInputs ==
    [ isList : BOOLEAN,
      own : {Prim(<<"headings">>), Prim(<<"paragraphs">>)} ]

DataOf(field) == ResultTree(field.isList, <<>>, field.own, Undef)

\* The orders in which one callback can settle the promises of a set
Orders(S) ==
    { order \in [1..Cardinality(S) -> S] :
        \A a, b \in DOMAIN order : a # b => order[a] # order[b] }

ResumeJob(i) == [kind |-> "resume", field |-> i]
CompleteJob(i) == [kind |-> "complete", field |-> i]

ExecInit ==
    /\ \E n \in 1..MaxFields : rootFields \in [1..n -> RootFieldInputs]
    /\ resolverPc = [i \in DOMAIN rootFields |-> "notCalled"]
    /\ jobs = <<>>
    /\ context = NoData
    /\ typeReads = [i \in DOMAIN rootFields |-> NotRun]

ExecIdle ==
    /\ rootFields = <<>>
    /\ resolverPc = <<>>
    /\ jobs = <<>>
    /\ context = NoData
    /\ typeReads = <<>>

\* execute calls the resolver of every top-level field; each runs up to
\* `await this.resolve(info, scope)` and returns its promise.
ExecuteFields ==
    /\ \A i \in DOMAIN rootFields : resolverPc[i] = "notCalled"
    /\ resolverPc' = [i \in DOMAIN rootFields |-> "awaiting"]
    /\ UNCHANGED <<rootFields, jobs, context, typeReads>>
    /\ UNCHANGED notExec

\* One callback of the event loop settles the getData promises of some of
\* the awaiting resolvers, each fulfilled or rejected, and so queues the
\* resumption of each.
GetDataSettles ==
    /\ jobs = <<>>
    /\ \E S \in SUBSET { i \in DOMAIN rootFields : resolverPc[i] = "awaiting" } :
          /\ S # {}
          /\ \E order \in Orders(S), rejected \in SUBSET S :
                /\ jobs' = [k \in DOMAIN order |-> ResumeJob(order[k])]
                /\ resolverPc' =
                      [i \in DOMAIN rootFields |->
                          IF i \in rejected THEN "rejected"
                          ELSE IF i \in S THEN "fulfilled"
                          ELSE resolverPc[i]]
    /\ UNCHANGED <<rootFields, context, typeReads>>
    /\ UNCHANGED notExec

\* The resolver after its await: `context.data = data; return data;`, which
\* fulfils the resolver's promise and queues the completion of the field.
\* A rejected await throws out of the resolver and the field is null.
ResumeResolver ==
    /\ jobs # <<>>
    /\ Head(jobs).kind = "resume"
    /\ LET i == Head(jobs).field
       IN  IF resolverPc[i] = "rejected"
           THEN /\ resolverPc' = [resolverPc EXCEPT ![i] = "failed"]
                /\ jobs' = Tail(jobs)
                /\ UNCHANGED context
           ELSE /\ context' = [by |-> i, data |-> DataOf(rootFields[i])]
                /\ resolverPc' = [resolverPc EXCEPT ![i] = "returned"]
                /\ jobs' = Append(Tail(jobs), CompleteJob(i))
    /\ UNCHANGED <<rootFields, typeReads>>
    /\ UNCHANGED notExec

\* The completion of field i's value: the union's resolveType runs with the
\* shared context and the path of the union field below field i.
CompleteValue ==
    /\ jobs # <<>>
    /\ Head(jobs).kind = "complete"
    /\ LET i == Head(jobs).field
           infoKeys == TopLevelKeys(i, rootFields[i].isList)
       IN  /\ typeReads' =
                 [typeReads EXCEPT ![i] =
                     [k |-> "read",
                      v |-> [by |-> context.by,
                             type |-> ResolveType(context.data,
                                         PathFromKeys(infoKeys, Len(infoKeys)),
                                         OneCollectionField, AllowedTypes)]]]
           /\ resolverPc' = [resolverPc EXCEPT ![i] = "completed"]
    /\ jobs' = Tail(jobs)
    /\ UNCHANGED <<rootFields, context>>
    /\ UNCHANGED notExec

ReqIdle ==
    /\ scope = "items"
    /\ nErrors = 0
    /\ pc = "idle"
    /\ exc = "none"
    /\ top = <<>>
    /\ lookups = <<>>
    /\ reads = <<>>

Init == ReqInit /\ ArgIdle /\ PlanIdle /\ UnionIdle /\ CompileIdle /\ ExecIdle

\* One request: execute, its top-level resolvers and their getData calls
Next ==
    \/ AwaitSchema
    \/ Validate
    \/ \E i \in DOMAIN top : Resolve(i)
    \/ \E i \in DOMAIN top : LookupReturns(i)
    \/ \E i \in DOMAIN top : ReadReturns(i)
    \/ Finish

Spec == Init /\ [][Next]_vars

\* parseArgs as a pure function of its two parameters
ArgsInit ==
    ArgInit /\ ReqIdle /\ PlanIdle /\ UnionIdle /\ CompileIdle /\ ExecIdle

ArgsNext == CallParseArgs

SpecArgs == ArgsInit /\ [][ArgsNext]_vars

\* parseFields as a pure function of the selection set
PlanSpecInit ==
    PlanInit /\ ReqIdle /\ ArgIdle /\ UnionIdle /\ CompileIdle /\ ExecIdle

PlanSpecNext == CallParseFields

SpecPlan == PlanSpecInit /\ [][PlanSpecNext]_vars

\* resolveType as a pure function of context.data and info.path
UnionSpecInit ==
    UnionInit /\ ReqIdle /\ ArgIdle /\ PlanIdle /\ CompileIdle /\ ExecIdle

UnionSpecNext == CallResolveType

SpecUnion == UnionSpecInit /\ [][UnionSpecNext]_vars

\* getSchema as a pure function of the service's schema, accountability
\* and scope
CompileSpecInit ==
    CompileInit /\ ReqIdle /\ ArgIdle /\ PlanIdle /\ UnionIdle /\ ExecIdle

CompileSpecNext == CallGetSchema

SpecCompile == CompileSpecInit /\ [][CompileSpecNext]_vars

\* The top-level resolvers of one operation and the completion of their
\* values
ExecSpecInit ==
    ExecInit /\ ReqIdle /\ ArgIdle /\ PlanIdle /\ UnionIdle /\ CompileIdle

ExecSpecNext ==
    \/ ExecuteFields
    \/ GetDataSettles
    \/ ResumeResolver
    \/ CompleteValue

SpecExec == ExecSpecInit /\ [][ExecSpecNext]_vars

\* ================================================================ claims

\* ---- C1 ----
\* The named system collections and the specialized accessor of each
NamedSystemAccessors ==
    (<<"directus_", "activity">> :> "ActivityService") @@
    (<<"directus_", "files">> :> "FilesService") @@
    (<<"directus_", "folders">> :> "FoldersService") @@
    (<<"directus_", "permissions">> :> "PermissionsService") @@
    (<<"directus_", "presets">> :> "PresetsService") @@
    (<<"directus_", "relations">> :> "RelationsService") @@
    (<<"directus_", "revisions">> :> "RevisionsService") @@
    (<<"directus_", "roles">> :> "RolesService") @@
    (<<"directus_", "settings">> :> "SettingsService") @@
    (<<"directus_", "users">> :> "UsersService") @@
    (<<"directus_", "webhooks">> :> "WebhooksService")

\* C1: in getData every named system collection is dispatched to its own
\* specialized accessor, every other name to the generic item accessor
\* parameterized by that name, and the read is issued on that accessor.
C1_NamedCollectionsOwnAccessor ==
    \A i \in DOMAIN top :
        top[i].st \in {"lookup", "reading"} =>
            LET c == top[i].collection
                expected ==
                    IF c \in DOMAIN NamedSystemAccessors
                    THEN [cls |-> NamedSystemAccessors[c], collection |-> c]
                    ELSE [cls |-> "ItemsService", collection |-> c]
            IN  /\ top[i].service = expected
                /\ \A k \in 1..Len(reads) :
                      reads[k].by = i => reads[k].service = expected

\* ---- C2 ----
\* The object that directly contains the union field: context.data walked
\* along every key of the response path between the root field's and the
\* union field's own.
C2_Container ==
    WalkFrom(unionIn.data, SubSeq(unionIn.keys, 2, Len(unionIn.keys) - 1), 1)

\* C2: wherever the many-to-any field occurs, resolveType returns the union
\* member named by the discriminator of the object that directly contains
\* the field when that value is an allowed collection, and no type when it
\* names no member.
C2_ResolvesContainingObject ==
    unionOut # NotRun =>
        LET type == Prop(C2_Container, OneCollectionField)
        IN  unionOut = FindType(AllowedTypes, type)

\* ---- C3 ----
\* C3: when validation yields at least one error the request ends with an
\* InvalidPayloadException and no lookup or read is ever issued; data access
\* happens only after validation returned zero errors.
C3_NoDataAccessOnInvalid ==
    /\ nErrors > 0 =>
          /\ lookups = <<>> /\ reads = <<>>
          /\ pc \in {"start", "validate", "thrown"}
          /\ \A i \in DOMAIN top : top[i].st = "pending"
    /\ (pc = "thrown" /\ exc # "compile") =>
          (nErrors > 0 /\ exc = "InvalidPayloadException")
    /\ (lookups # <<>> \/ reads # <<>>) =>
          (nErrors = 0 /\ pc \in {"executing", "done"})

\* A request rejected by validation before any resolver ran
C3_Witness ==
    /\ pc = "thrown"
    /\ exc = "InvalidPayloadException"
    /\ nErrors > 0
    /\ \E i \in DOMAIN top : top[i].hasSelections

C5_Direct(node) ==
    ParseArgs(<<[name |-> <<"x">>, value |-> node]>>, variableValues)[<<"x">>]

\* C5: parseArgs decodes each element of a list by kind, to the same result
\* the kind gets directly as an argument value: an object to a mapping, a
\* variable to its bound value, a nested list to an array, a scalar to its
\* literal.
C5_ListElementsDecodedByKind ==
    argsOut # NotRun =>
        \A i \in 1..Len(argNodes) :
            ( /\ argNodes[i].value.kind = "ListValue"
              /\ \A j \in (i + 1)..Len(argNodes) :
                    argNodes[j].name # argNodes[i].name ) =>
                LET out == argsOut.v[argNodes[i].name]
                    values == argNodes[i].value.values
                IN  /\ out.k = "array"
                    /\ Len(out.v) = Len(values)
                    /\ \A j \in 1..Len(values) : out.v[j] = C5_Direct(values[j])

\* ---- C6 ----
\* C6: a collection has an object type (and with it a root query field) in
\* the compiled schema if and only if it has at least one field whose name
\* does not start with "__".
C6_CompiledIffExposedField ==
    compiled # NotRun =>
        LET schema == CompilerSchema(service)
        IN  \A c \in DOMAIN schema.collections :
                (c \in compiled.v.graphqlSchema) <=>
                    (\E f \in schema.collections[c].fields : f[1] # "__")

\* ---- C7 ----
\* How getFilterArgs classifies field f of collection c
C7_Class(c, f) ==
    FilterRelationType(CompilerSchema(service).relations, c, f)

C8_CompileNeverThrows ==
    compiled # NotRun => ~compiled.v.threw

\* ---- C9 ----
\* The leaf paths of a selection tree, in selection order, as the claim
\* gives them: <name> at the root, <prefix>.<name> below, <prefix>:<type>
\* for an inline fragment, nothing for a name starting with "__".
RECURSIVE C9_LeafPaths(_, _, _)
C9_LeafPaths(sels, prefix, atRoot) ==
    IF Len(sels) = 0 THEN <<>>
    ELSE LET node == Head(sels)
             here ==
                IF node.kind = "FragmentSpread" THEN <<>>
                ELSE LET label == IF node.kind = "InlineFragment"
                                  THEN node.typeCondition ELSE node.name
                         own == IF node.kind = "InlineFragment"
                                THEN prefix \o <<":">> \o label
                                ELSE IF atRoot THEN label
                                     ELSE prefix \o <<".">> \o label
                     IN  IF label[1] = "__" THEN <<>>
                         ELSE IF node.selectionSet.defined
                              THEN C9_LeafPaths(node.selectionSet.selections,
                                                own, FALSE)
                              ELSE <<own>>
         IN  here \o C9_LeafPaths(Tail(sels), prefix, atRoot)

RECURSIVE C10_ArgumentFields(_, _)
C10_ArgumentFields(sels, parent) ==
    UNION { LET node == sels[i] IN
            IF Skipped(node) THEN {}
            ELSE LET current == CurrentPath(node, parent)
                 IN  (IF node.kind = "Field" /\ Len(node.arguments) > 0
                      THEN {[path |-> current, arguments |-> node.arguments]}
                      ELSE {})
                     \cup
                     (IF node.selectionSet.defined
                      THEN C10_ArgumentFields(node.selectionSet.selections,
                                              Parent(current))
                      ELSE {}) :
            i \in 1..Len(sels) }

\* C10: after planning, for every field that carried arguments the deep
\* mapping holds, at that field's dotted path, each of its sanitized options
\* under the option's name prefixed with "_".
C10_DeepHoldsEveryBlock ==
    planOut # NotRun =>
        \A e \in C10_ArgumentFields(selections, NoParent) :
            LET block == LodashGet(planOut.v.deep, e.path)
                options == SanitizeQuery(ParseArgs(e.arguments, variableValues))
            IN  \A key \in DOMAIN options :
                    Prop(block, <<"_">> \o key) = options[key]

\* ---- C11 ----
\* C11: under every interleaving of the top-level resolvers of one request
\* and of the completion of their values, the result tree that a union's
\* resolveType reads from context.data is the data returned for the
\* top-level field the union value belongs to, never the data a sibling
\* top-level field stored.
C11_ReadsOwnFieldData ==
    \A i \in DOMAIN typeReads :
        typeReads[i].k = "read" => typeReads[i].v.by = i

=============================================================================
